---------------------------- MODULE Spec2Model ----------------------------
(***************************************************************************)
(* A model of `til that ...` (src/src/entry.rs): Entry::write resolves the *)
(* note file of the current date, writes a metadata header when the file   *)
(* is empty, merges new tags into the header otherwise, and appends the    *)
(* entry line.                                                             *)
(*                                                                         *)
(* Text (file contents, tags, paths) is a sequence of one-character        *)
(* strings, so that split, trim, join, replace and the tags regex are      *)
(* computed on the bytes as the code computes them.                        *)
(*                                                                         *)
(* The filesystem is `files` (path -> content, its domain the files that   *)
(* exist) and `dirs` (the directories that exist).  Opening, reading and   *)
(* writing a file the program may reach are taken to succeed; the failures *)
(* modelled are the ones of path resolution: no home directory, and a      *)
(* create_dir_all that fails.                                              *)
(***************************************************************************)
EXTENDS Naturals, Sequences, FiniteSets

VARIABLES
    files,      \* path -> content of every file that exists
    dirs,       \* the directories that exist
    home,       \* dirs::home_dir(): the set of the home directory, empty for None
    mkdirOk,    \* whether fs::create_dir_all succeeds in this environment
    today,      \* index into Calendar: the date Local::now() returns
    seeded,     \* the paths whose file existed before the program ran
    hist,       \* path -> the successful writes to it, in call order: content, tags,
                \* and fresh, whether the write found the file at zero length
    resolved,   \* the (date, path) pairs build_path has returned
    last,       \* the last invocation of write: its input, result and fs calls
    nwrites,    \* invocations so far
    procs,      \* the invocations that run concurrently, each at one of its
                \* filesystem calls (none in the sequential specifications)
    built       \* a date and what each build_path of the program returns on it

vars == <<files, dirs, home, mkdirOk, today, seeded, hist, resolved, last, nwrites, procs, built>>

(***************************************************************************)
(* Bounds                                                                  *)
(***************************************************************************)
MaxWrites == 3

(***************************************************************************)
(* Text                                                                    *)
(***************************************************************************)
NL == "\n"
\* char::is_whitespace, on the characters the model uses
IsWhite(c) == c \in {" ", "\n", "\t", "\r"}

\* pat occurs in s at position p
MatchAt(s, p, pat) ==
    /\ p >= 1
    /\ p + Len(pat) - 1 <= Len(s)
    /\ \A i \in 1..Len(pat) : s[p + i - 1] = pat[i]

\* the first position >= from where pat occurs in s, 0 when there is none
Find(s, pat, from) ==
    LET hits == {p \in from..(Len(s) - Len(pat) + 1) : MatchAt(s, p, pat)}
    IN  IF hits = {} THEN 0 ELSE CHOOSE p \in hits : \A q \in hits : p <= q

\* str::split(pat): the pieces between the non-overlapping occurrences of pat,
\* left to right; a text without pat is one piece, the text itself
RECURSIVE Split(_, _)
Split(s, pat) ==
    LET p == Find(s, pat, 1)
    IN  IF p = 0 THEN <<s>>
        ELSE <<SubSeq(s, 1, p - 1)>> \o Split(SubSeq(s, p + Len(pat), Len(s)), pat)

\* str::trim
RECURSIVE TrimStart(_)
TrimStart(s) ==
    IF s # <<>> /\ IsWhite(Head(s)) THEN TrimStart(Tail(s)) ELSE s

RECURSIVE TrimEnd(_)
TrimEnd(s) ==
    IF s # <<>> /\ IsWhite(s[Len(s)]) THEN TrimEnd(SubSeq(s, 1, Len(s) - 1)) ELSE s

Trim(s) == TrimEnd(TrimStart(s))

\* [String]::join(sep)
RECURSIVE Join(_, _)
Join(ss, sep) ==
    IF ss = <<>> THEN <<>>
    ELSE IF Len(ss) = 1 THEN ss[1]
    ELSE ss[1] \o sep \o Join(Tail(ss), sep)

\* str::replace(from, to): every non-overlapping occurrence, left to right
RECURSIVE Replace(_, _, _)
Replace(s, from, to) ==
    LET p == Find(s, from, 1)
    IN  IF p = 0 THEN s
        ELSE SubSeq(s, 1, p - 1) \o to \o Replace(SubSeq(s, p + Len(from), Len(s)), from, to)

\* Vec::contains
Contains(v, x) == \E i \in 1..Len(v) : v[i] = x

\* Vec::retain(|tag| !existing.contains(tag))
RECURSIVE Retain(_, _)
Retain(v, existing) ==
    IF v = <<>> THEN <<>>
    ELSE IF Contains(existing, Head(v)) THEN Retain(Tail(v), existing)
    ELSE <<Head(v)>> \o Retain(Tail(v), existing)

\* Iterator::map(|s| s.trim().to_string())
RECURSIVE TrimAll(_)
TrimAll(v) == IF v = <<>> THEN <<>> ELSE <<Trim(Head(v))>> \o TrimAll(Tail(v))


(***************************************************************************)
(* Path resolution: find_root_dir (main.rs) and Entry::build_path          *)
(***************************************************************************)
\* The dates Local::now() returns, in the order the clock passes them.
Calendar ==
    << [month |-> 1,  day |-> 11, year |-> 2024],
       [month |-> 11, day |-> 1,  year |-> 2024] >>

\* PATH_FROM_ROOT = ".til/notes"
PATH_FROM_ROOT == <<".", "t", "i", "l", "/", "n", "o", "t", "e", "s">>

\* the home directory of the model's user: "/u"
HomeDir == <<"/", "u">>

Digits == <<"0", "1", "2", "3", "4", "5", "6", "7", "8", "9">>

\* format!("{}", n)
RECURSIVE Dec(_)
Dec(n) == IF n < 10 THEN <<Digits[n + 1]>> ELSE Dec(n \div 10) \o <<Digits[(n % 10) + 1]>>

\* format!("{:02}", n): at least two digits, zero-padded
Pad2(n) == IF n < 10 THEN <<"0">> \o Dec(n) ELSE Dec(n)

\* format_date without the separators and the padding: format!("{}{}{}", ...)
format_date_unseparated(d) == Dec(d.month) \o Dec(d.day) \o Dec(d.year)

\* format!("{:02}-{:02}-{}", time.month(), time.day(), time.year())
format_date(d) == Pad2(d.month) \o <<"-">> \o Pad2(d.day) \o <<"-">> \o Dec(d.year)

\* Path::join of a relative component
PathJoin(base, comp) == base \o <<"/">> \o comp

\* find_root_dir(): home_dir()?.join(PATH_FROM_ROOT); an Option is a set of
\* at most one element
find_root_dir(h) == {PathJoin(x, PATH_FROM_ROOT) : x \in h}

\* Path::parent: the path without its last component, none for a path of
\* no component
Parent(path) ==
    LET slashes == {i \in 1..Len(path) : path[i] = "/"}
    IN  IF slashes = {} \/ path = <<"/">> THEN {}
        ELSE LET k == CHOOSE i \in slashes : \A j \in slashes : j <= i
             IN  {IF k = 1 THEN <<"/">> ELSE SubSeq(path, 1, k - 1)}

\* root.join(date).join("default") with set_extension("md")
note_path(root, d) ==
    PathJoin(PathJoin(root, format_date(d)), <<"d", "e", "f", "a", "u", "l", "t">>) \o <<".", "m", "d">>

\* Entry::build_path: the path, or the error; the directories afterwards
build_path(h, d, ds, canMkdir) ==
    LET root == find_root_dir(h)
    IN  IF root = {}
        THEN [err |-> "CannotFindDir", path |-> <<>>, dirs |-> ds, ops |-> <<>>]
        ELSE LET path == note_path(CHOOSE r \in root : TRUE, d)
                 directory == Parent(path)
             IN  IF directory = {}
                 THEN [err |-> "CannotFindDir", path |-> <<>>, dirs |-> ds, ops |-> <<>>]
                 ELSE IF directory \subseteq ds
                 THEN [err |-> "Ok", path |-> path, dirs |-> ds, ops |-> <<>>]
                 ELSE IF ~canMkdir
                 THEN [err |-> "CannotCreateDir", path |-> <<>>, dirs |-> ds,
                       ops |-> <<"create_dir_all">>]
                 ELSE [err |-> "Ok", path |-> path, dirs |-> ds \cup directory,
                       ops |-> <<"create_dir_all">>]

(***************************************************************************)
(* The path of the binary's own Entry (src/src/main.rs)                    *)
(***************************************************************************)
\* #[clap(short, long, default_value = "default")] title
DefaultTitle == <<"d", "e", "f", "a", "u", "l", "t">>

\* format!("{}-{}-{}", time.month(), time.day(), time.year())
main_format_date(d) == Dec(d.month) \o <<"-">> \o Dec(d.day) \o <<"-">> \o Dec(d.year)

\* Path::new(&root_dir).join(&date).join(&self.title) with set_extension("md")
main_note_path(root, d, title) ==
    PathJoin(PathJoin(root, main_format_date(d)), title) \o <<".", "m", "d">>

\* Entry::build_path of main.rs: the path, or the error; the directories
\* afterwards
main_build_path(h, d, title, ds, canMkdir) ==
    LET root == find_root_dir(h)
    IN  IF root = {}
        THEN [err |-> "CannotFindDir", path |-> <<>>, dirs |-> ds]
        ELSE LET path == main_note_path(CHOOSE r \in root : TRUE, d, title)
                 directory == Parent(path)
             IN  IF directory = {}
                 THEN [err |-> "CannotFindDir", path |-> <<>>, dirs |-> ds]
                 ELSE IF directory \subseteq ds
                 THEN [err |-> "Ok", path |-> path, dirs |-> ds]
                 ELSE IF ~canMkdir
                 THEN [err |-> "CannotCreateDir", path |-> <<>>, dirs |-> ds]
                 ELSE [err |-> "Ok", path |-> path, dirs |-> ds \cup directory]

(***************************************************************************)
(* The header: Entry::generate_meta and Entry::update_meta                 *)
(***************************************************************************)
\* the raw string of generate_meta up to the `{}`; its lines after the first
\* carry the four spaces the source indents them with
MetaHead == <<"-", "-", "-", NL, " ", " ", " ", " ", "t", "i", "t", "l", "e", ":", " ", "\"", "d", "e", "f", "a", "u", "l", "t", "\"", NL, " ", " ", " ", " ", "t", "a", "g", "s", ":", " ", "[">>

\* the raw string of generate_meta after the `{}`
MetaTail == <<"]", NL, " ", " ", " ", " ", "-", "-", "-", NL, " ", " ", " ", " ", NL, " ", " ", " ", " ">>

CommaSpace == <<",", " ">>

\* Entry::generate_meta
generate_meta(tags) == MetaHead \o Join(tags, CommaSpace) \o MetaTail

\* the pattern update_meta splits the contents on
DELIM == <<NL, "-", "-", "-", NL>>

TagsKey == <<"t", "a", "g", "s", ":">>

\* (?m)^ : the start of the text, or just after a line feed
LineStart(s, p) == p = 1 \/ s[p - 1] = NL

\* (?m)$ after position r: the end of the text, or just before a line feed
LineEnd(s, r) == r = Len(s) \/ s[r + 1] = NL

\* \s* from position q: the first position that holds no whitespace
RECURSIVE SkipWhite(_, _)
SkipWhite(s, q) == IF q <= Len(s) /\ IsWhite(s[q]) THEN SkipWhite(s, q + 1) ELSE q

\* the position of `[` of a match of ^tags:\s*\[ starting at p, 0 for none
TagsOpen(s, p) ==
    IF ~(LineStart(s, p) /\ MatchAt(s, p, TagsKey)) THEN 0
    ELSE LET q == SkipWhite(s, p + Len(TagsKey))
         IN  IF q <= Len(s) /\ s[q] = "[" THEN q ELSE 0

\* the position of `]` of the match of (.*?)\]$ after the `[` at q, 0 for
\* none: the first `]` that ends its line, with no line feed before it
TagsClose(s, q) ==
    LET ends == {r \in (q + 1)..Len(s) :
                    /\ s[r] = "]"
                    /\ LineEnd(s, r)
                    /\ \A i \in (q + 1)..(r - 1) : s[i] # NL}
    IN  IF ends = {} THEN 0 ELSE CHOOSE r \in ends : \A x \in ends : r <= x

\* Regex::new(r"(?m)^tags:\s*\[(.*?)\]$").captures(s): the leftmost match;
\* whole is captures[0], inner is captures[1]
tags_regex(s) ==
    LET starts == {p \in 1..Len(s) :
                      TagsOpen(s, p) # 0 /\ TagsClose(s, TagsOpen(s, p)) # 0}
    IN  IF starts = {} THEN [found |-> FALSE, whole |-> <<>>, inner |-> <<>>]
        ELSE LET p == CHOOSE x \in starts : \A y \in starts : x <= y
                 q == TagsOpen(s, p)
                 r == TagsClose(s, q)
             IN  [found |-> TRUE, whole |-> SubSeq(s, p, r),
                  inner |-> SubSeq(s, q + 1, r - 1)]

\* contents.split("\n---\n").next(): the first piece, which split always has
meta_block(contents) == Head(Split(contents, DELIM))

\* captures[1].split(',').map(|s| s.trim().to_string()).collect()
existing_tags(inner) == TrimAll(Split(inner, <<",">>))

\* tags_line that lists the new tags in place of the existing ones
tags_line_new_only(existing, new) ==
    TagsKey \o <<" ", "[">> \o Join(new, CommaSpace) \o <<"]">>

\* format!("tags: [{}]", existing.chain(new_tags).join(", "))
tags_line(existing, new) ==
    TagsKey \o <<" ", "[">> \o Join(existing \o new, CommaSpace) \o <<"]">>

\* Entry::update_meta on the text read from the file: the result, and the
\* text fs::write puts back (written tells whether fs::write ran)
update_meta(contents, tags) ==
    LET cap == tags_regex(meta_block(contents))
    IN  IF ~cap.found
        THEN [result |-> "CannotParseMetaData", contents |-> contents, written |-> FALSE]
        ELSE LET existing == existing_tags(cap.inner)
                 new_tags == Retain(tags, existing)
             IN  [result   |-> "Ok",
                  contents |-> IF new_tags # <<>>
                               THEN Replace(contents, cap.whole, tags_line(existing, new_tags))
                               ELSE contents,
                  written  |-> TRUE]

\* format!("- {}\n", self.content)
entry_line(content) == <<"-", " ">> \o content \o <<NL>>


(***************************************************************************)
(* Entry::write on the file at the resolved path                           *)
(***************************************************************************)
\* write_file without the test of self.tags.is_empty(): every write to a
\* non-empty file merges
write_file_always_merges(before, content, tags) ==
    IF Len(before) = 0
    THEN [result   |-> "Ok",
          contents |-> generate_meta(tags) \o entry_line(content),
          ops      |-> <<"open", "metadata", "write_all(meta)", "write_all(entry)">>]
    ELSE LET um == update_meta(before, tags)
         IN  IF um.result # "Ok"
             THEN [result   |-> um.result,
                   contents |-> before,
                   ops      |-> <<"open", "metadata", "read_to_string">>]
             ELSE [result   |-> "Ok",
                   contents |-> um.contents \o entry_line(content),
                   ops      |-> <<"open", "metadata", "read_to_string", "fs::write",
                                  "write_all(entry)">>]

\* write_file without the test of file_size: every write puts the header
\* before its entry line
write_file_always_writes_meta(before, content, tags) ==
    [result   |-> "Ok",
     contents |-> before \o generate_meta(tags) \o entry_line(content),
     ops      |-> <<"open", "metadata", "write_all(meta)", "write_all(entry)">>]

\* Entry::write after build_path, on a file holding `before` (empty for a
\* file that open() has just created): the result, the file's content
\* afterwards and the filesystem calls made, in order
write_file(before, content, tags) ==
    IF Len(before) = 0
    THEN [result   |-> "Ok",
          contents |-> generate_meta(tags) \o entry_line(content),
          ops      |-> <<"open", "metadata", "write_all(meta)", "write_all(entry)">>]
    ELSE IF tags # <<>>
    THEN LET um == update_meta(before, tags)
         IN  IF um.result # "Ok"
             THEN [result   |-> um.result,
                   contents |-> before,
                   ops      |-> <<"open", "metadata", "read_to_string">>]
             ELSE [result   |-> "Ok",
                   contents |-> um.contents \o entry_line(content),
                   ops      |-> <<"open", "metadata", "read_to_string", "fs::write",
                                  "write_all(entry)">>]
    ELSE [result   |-> "Ok",
          contents |-> before \o entry_line(content),
          ops      |-> <<"open", "metadata", "write_all(entry)">>]

\* the error write returns for an error of build_path:
\* self.build_path().map_err(|_| Error::CannotBuildPath)
map_build_err(e) == "CannotBuildPath"

(***************************************************************************)
(* Inputs and the files found on disk                                      *)
(***************************************************************************)
TagA == <<"a">>
TagB == <<"b">>
TagC == <<"c">>

\* the command line's content and --tags
Contents == {<<"x">>, <<"y">>}
TagLists == {<<>>, <<TagA>>, <<TagB, TagC>>, <<TagA, TagB>>}

\* --tags with a tag given twice (`--tags c,c`), and without
RepeatedTagLists == {<<>>, <<TagC, TagC>>, <<TagA, TagC>>}

\* a note file in the documented format, tags [a, b]
DocAB == <<"-", "-", "-", NL, "t", "i", "t", "l", "e", ":", " ", "\"", "d", "e", "f", "a", "u", "l", "t", "\"", NL, "t", "a", "g", "s", ":", " ", "[", "a", ",", " ", "b", "]", NL, "-", "-", "-", NL, NL, "-", " ", "x", NL>>

\* a note file in the documented format, no tags
DocNone == <<"-", "-", "-", NL, "t", "i", "t", "l", "e", ":", " ", "\"", "d", "e", "f", "a", "u", "l", "t", "\"", NL, "t", "a", "g", "s", ":", " ", "[", "]", NL, "-", "-", "-", NL, NL, "-", " ", "x", NL>>

\* a header without a tags line
NoTagsLine == <<"-", "-", "-", NL, "t", "i", "t", "l", "e", ":", " ", "\"", "d", "e", "f", "a", "u", "l", "t", "\"", NL, "-", "-", "-", NL, NL, "-", " ", "x", NL>>

\* a header whose tags key and list are on two lines
SplitTagsLine == <<"-", "-", "-", NL, "t", "a", "g", "s", ":", NL, " ", " ", "[", "a", "]", NL, "-", "-", "-", NL, NL, "-", " ", "x", NL>>

\* a header without a tags line, and a tags line after the header
LateTagsLine == <<"-", "-", "-", NL, "t", "i", "t", "l", "e", ":", " ", "\"", "d", "e", "f", "a", "u", "l", "t", "\"", NL, "-", "-", "-", NL, "t", "a", "g", "s", ":", " ", "[", "a", "]", NL, "-", " ", "x", NL>>

\* notes without a header
Plain == <<"-", " ", "x", NL>>

\* a tags line and notes, without the header's delimiters
BareTagsLine == <<"t", "a", "g", "s", ":", " ", "[", "a", "]", NL, "-", " ", "x", NL>>

\* a note file in the documented format, tags [a], with a note that repeats
\* the text of the tags line
EchoTagsLine == <<"-", "-", "-", NL, "t", "i", "t", "l", "e", ":", " ", "\"", "d", "e", "f", "a", "u", "l", "t", "\"", NL, "t", "a", "g", "s", ":", " ", "[", "a", "]", NL, "-", "-", "-", NL, NL, "-", " ", "t", "a", "g", "s", ":", " ", "[", "a", "]", NL>>

\* what the note file of the first day may hold before the program runs
\* (<<>> is a file of zero length)
SeedContents ==
    {<<>>, DocAB, DocNone, NoTagsLine, SplitTagsLine, LateTagsLine, Plain, BareTagsLine,
     EchoTagsLine}

SeedPath == note_path(PathJoin(HomeDir, PATH_FROM_ROOT), Calendar[1])

NoCall ==
    [content |-> <<>>, tags |-> <<>>, result |-> "None", cause |-> "None",
     date |-> Calendar[1], path |-> <<>>, existed |-> FALSE, before |-> <<>>, ops |-> <<>>]

Hist(p) == IF p \in DOMAIN hist THEN hist[p] ELSE <<>>

(***************************************************************************)
(* The state machine                                                       *)
(***************************************************************************)
\* no date drawn for the path routines, none of them called
NoPath == [err |-> "None", path |-> <<>>]
NotBuilt == [date |-> Calendar[1], entry |-> NoPath, main |-> NoPath]

Init ==
    /\ home \in {{}, {HomeDir}}
    /\ mkdirOk \in BOOLEAN
    /\ today = 1
    /\ \E seed \in {{}} \cup {{c} : c \in SeedContents} :
          /\ files = [p \in {SeedPath : c \in seed} |-> CHOOSE c \in seed : TRUE]
          /\ dirs = UNION {Parent(SeedPath) : c \in seed}
          /\ seeded = {SeedPath : c \in seed}
    /\ hist = [p \in {} |-> <<>>]
    /\ resolved = {}
    /\ last = NoCall
    /\ nwrites = 0
    /\ procs = <<>>
    /\ built = NotBuilt

\* One invocation of `til that <content> --tags <tags>`: Entry::write
Write(content, tags) ==
    /\ nwrites < MaxWrites
    /\ nwrites' = nwrites + 1
    /\ LET bp == build_path(home, Calendar[today], dirs, mkdirOk)
       IN  IF bp.err # "Ok"
           THEN /\ last' = [content |-> content, tags |-> tags,
                            result |-> map_build_err(bp.err), cause |-> bp.err,
                            date |-> Calendar[today], path |-> <<>>,
                            existed |-> FALSE, before |-> <<>>, ops |-> bp.ops]
                /\ dirs' = bp.dirs
                /\ UNCHANGED <<files, hist, resolved>>
           ELSE LET path == bp.path
                    existed == path \in DOMAIN files
                    before == IF existed THEN files[path] ELSE <<>>
                    w == write_file(before, content, tags)
                IN  /\ files' = [p \in DOMAIN files \cup {path} |->
                                    IF p = path THEN w.contents ELSE files[p]]
                    /\ dirs' = bp.dirs
                    /\ hist' = IF w.result = "Ok"
                               THEN [p \in DOMAIN hist \cup {path} |->
                                        IF p = path
                                        THEN Append(Hist(path),
                                                    [content |-> content, tags |-> tags,
                                                     fresh |-> Len(before) = 0])
                                        ELSE hist[p]]
                               ELSE hist
                    /\ resolved' = resolved \cup {[date |-> Calendar[today], path |-> path]}
                    /\ last' = [content |-> content, tags |-> tags,
                                result |-> w.result, cause |-> w.result,
                                date |-> Calendar[today], path |-> path,
                                existed |-> existed, before |-> before,
                                ops |-> bp.ops \o w.ops]
    /\ UNCHANGED <<home, mkdirOk, today, seeded, procs, built>>

\* The local date changes
Midnight ==
    /\ today < Len(Calendar)
    /\ today' = today + 1
    /\ UNCHANGED <<files, dirs, home, mkdirOk, seeded, hist, resolved, last, nwrites, procs, built>>

Next ==
    \/ \E content \in Contents, tags \in TagLists : Write(content, tags)
    \/ Midnight

Spec == Init /\ [][Next]_vars

\* The same program, called with tag lists that may repeat a tag
NextRepeated ==
    \/ \E content \in Contents, tags \in RepeatedTagLists : Write(content, tags)
    \/ Midnight

SpecRepeated == Init /\ [][NextRepeated]_vars


(***************************************************************************)
(* Two invocations of Entry::write that run at the same time, as two       *)
(* processes on one note file.  Each filesystem call of write is one step: *)
(* nothing orders the calls of one process against those of the other.     *)
(* fs::write is two calls, an open that truncates the file and a write at  *)
(* offset 0; a write_all on the handle opened with append(true) lands at   *)
(* the end of the file.                                                    *)
(***************************************************************************)
Procs == {1, 2}

TagD == <<"d">>

\* the --tags of a concurrent invocation
ConcTagLists == {<<>>, <<TagC>>, <<TagD>>}

\* the content of each concurrent invocation
ConcContent == <<(<<"p">>), (<<"q">>)>>

\* what the note file holds before the two invocations start
ConcSeedContents == {DocAB, NoTagsLine}

\* a write of data at offset 0 of a file holding `old`
WriteAtStart(old, data) == data \o SubSeq(old, Len(data) + 1, Len(old))

ConcInit ==
    /\ home = {HomeDir}
    /\ mkdirOk = TRUE
    /\ today = 1
    /\ \E seed \in ConcSeedContents : files = [p \in {SeedPath} |-> seed]
    /\ dirs = Parent(SeedPath)
    /\ seeded = {SeedPath}
    /\ hist = [p \in {} |-> <<>>]
    /\ resolved = {}
    /\ last = NoCall
    /\ nwrites = 0
    /\ built = NotBuilt
    /\ \E t1, t2 \in ConcTagLists :
          procs = [i \in Procs |->
                      [pc |-> "build_path", content |-> ConcContent[i],
                       tags |-> IF i = 1 THEN t1 ELSE t2,
                       path |-> <<>>, buf |-> <<>>, read |-> <<>>, result |-> "None"]]

ConcFrame == UNCHANGED <<home, mkdirOk, today, seeded, hist, resolved, last, nwrites, built>>

\* let path = self.build_path().map_err(|_| Error::CannotBuildPath)?
CBuildPath(i) ==
    /\ procs[i].pc = "build_path"
    /\ LET bp == build_path(home, Calendar[today], dirs, mkdirOk)
       IN  /\ dirs' = bp.dirs
           /\ procs' = [procs EXCEPT ![i] =
                 IF bp.err # "Ok"
                 THEN [@ EXCEPT !.pc = "done", !.result = map_build_err(bp.err)]
                 ELSE [@ EXCEPT !.pc = "open", !.path = bp.path]]
    /\ UNCHANGED files
    /\ ConcFrame

\* OpenOptions::new().append(true).create(true).open(&path)
COpen(i) ==
    /\ procs[i].pc = "open"
    /\ files' = [p \in DOMAIN files \cup {procs[i].path} |->
                    IF p \in DOMAIN files THEN files[p] ELSE <<>>]
    /\ procs' = [procs EXCEPT ![i].pc = "metadata"]
    /\ UNCHANGED dirs
    /\ ConcFrame

\* file.metadata()?.len(), and the branch taken on it
CMetadata(i) ==
    /\ procs[i].pc = "metadata"
    /\ procs' = [procs EXCEPT ![i].pc =
                    IF Len(files[procs[i].path]) = 0 THEN "write_meta"
                    ELSE IF procs[i].tags # <<>> THEN "read"
                    ELSE "append"]
    /\ UNCHANGED <<files, dirs>>
    /\ ConcFrame

\* file.write_all(self.generate_meta().as_bytes())
CWriteMeta(i) ==
    /\ procs[i].pc = "write_meta"
    /\ files' = [files EXCEPT ![procs[i].path] = @ \o generate_meta(procs[i].tags)]
    /\ procs' = [procs EXCEPT ![i].pc = "append"]
    /\ UNCHANGED dirs
    /\ ConcFrame

\* update_meta: fs::read_to_string(&path), and the merge in memory
CRead(i) ==
    /\ procs[i].pc = "read"
    /\ LET um == update_meta(files[procs[i].path], procs[i].tags)
       IN  procs' = [procs EXCEPT ![i] =
              IF um.result # "Ok"
              THEN [@ EXCEPT !.pc = "done", !.result = um.result,
                             !.read = files[procs[i].path]]
              ELSE [@ EXCEPT !.pc = "truncate", !.buf = um.contents,
                             !.read = files[procs[i].path]]]
    /\ UNCHANGED <<files, dirs>>
    /\ ConcFrame

\* update_meta: fs::write(&path, contents), its open with truncate
CTruncate(i) ==
    /\ procs[i].pc = "truncate"
    /\ files' = [files EXCEPT ![procs[i].path] = <<>>]
    /\ procs' = [procs EXCEPT ![i].pc = "write_back"]
    /\ UNCHANGED dirs
    /\ ConcFrame

\* update_meta: fs::write(&path, contents), its write
CWriteBack(i) ==
    /\ procs[i].pc = "write_back"
    /\ files' = [files EXCEPT ![procs[i].path] = WriteAtStart(@, procs[i].buf)]
    /\ procs' = [procs EXCEPT ![i].pc = "append"]
    /\ UNCHANGED dirs
    /\ ConcFrame

\* file.write_all(format!("- {}\n", self.content).as_bytes())
CAppend(i) ==
    /\ procs[i].pc = "append"
    /\ files' = [files EXCEPT ![procs[i].path] = @ \o entry_line(procs[i].content)]
    /\ procs' = [procs EXCEPT ![i] = [@ EXCEPT !.pc = "done", !.result = "Ok"]]
    /\ UNCHANGED dirs
    /\ ConcFrame

ConcNext ==
    \E i \in Procs :
        \/ CBuildPath(i)
        \/ COpen(i)
        \/ CMetadata(i)
        \/ CWriteMeta(i)
        \/ CRead(i)
        \/ CTruncate(i)
        \/ CWriteBack(i)
        \/ CAppend(i)

ConcSpec == ConcInit /\ [][ConcNext]_vars

(***************************************************************************)
(* The path routines on every date of a year: each build_path of the       *)
(* program is called once on the date Local::now() returns                 *)
(***************************************************************************)
\* the days of each month of 2024
DaysIn(m) == IF m = 2 THEN 29 ELSE IF m \in {4, 6, 9, 11} THEN 30 ELSE 31

\* the dates Local::now() can return in 2024
Dates == {[month |-> m, day |-> dd, year |-> 2024] : m \in 1..12, dd \in 1..31}

PathInit ==
    /\ home \in {{}, {HomeDir}}
    /\ mkdirOk \in BOOLEAN
    /\ today = 1
    /\ files = [p \in {} |-> <<>>]
    /\ dirs = {}
    /\ seeded = {}
    /\ hist = [p \in {} |-> <<>>]
    /\ resolved = {}
    /\ last = NoCall
    /\ nwrites = 0
    /\ procs = <<>>
    /\ \E d \in {x \in Dates : x.day <= DaysIn(x.month)} :
          built = [date |-> d, entry |-> NoPath, main |-> NoPath]

PathFrame ==
    UNCHANGED <<files, home, mkdirOk, today, seeded, hist, resolved, last, nwrites, procs>>

\* Entry::build_path of entry.rs
BuildEntryPath ==
    /\ built.entry.err = "None"
    /\ LET bp == build_path(home, built.date, dirs, mkdirOk)
       IN  /\ built' = [built EXCEPT !.entry = [err |-> bp.err, path |-> bp.path]]
           /\ dirs' = bp.dirs
    /\ PathFrame

\* Entry::build_path of main.rs, the title left at its default
BuildMainPath ==
    /\ built.main.err = "None"
    /\ LET bp == main_build_path(home, built.date, DefaultTitle, dirs, mkdirOk)
       IN  /\ built' = [built EXCEPT !.main = [err |-> bp.err, path |-> bp.path]]
           /\ dirs' = bp.dirs
    /\ PathFrame

PathNext ==
    \/ BuildEntryPath
    \/ BuildMainPath

PathSpec == PathInit /\ [][PathNext]_vars

(***************************************************************************)
(* The documented file format (spec section 6), as a reader of the file    *)
(* sees it; used to state the properties, not by the program               *)
(***************************************************************************)
DocDelimLine == <<"-", "-", "-">>
DocTitleLine == <<"t", "i", "t", "l", "e", ":", " ", "\"", "d", "e", "f", "a", "u", "l", "t", "\"">>
DocTagsOpen  == <<"t", "a", "g", "s", ":", " ", "[">>
DocTagsLine(tags) == DocTagsOpen \o Join(tags, <<",", " ">>) \o <<"]">>
DocEntryLine(content) == <<"-", " ">> \o content
DocEntryText(content) == DocEntryLine(content) \o <<NL>>

\* the lines of a text; a text that ends with a line feed has no last empty line
Lines(s) ==
    LET ps == Split(s, <<NL>>)
    IN  IF ps[Len(ps)] = <<>> THEN SubSeq(ps, 1, Len(ps) - 1) ELSE ps

IsPrefix(a, s) == MatchAt(s, 1, a)
IsBlank(line) == \A i \in 1..Len(line) : IsWhite(line[i])
IsTagsLine(line) ==
    /\ IsPrefix(DocTagsOpen, line)
    /\ line[Len(line)] = "]"
IsEntryLine(line) == IsPrefix(<<"-", " ">>, line)

NotBlank(line) == ~IsBlank(line)
EntryLines(s) == SelectSeq(Lines(s), IsEntryLine)

\* the tags a tags line lists
TagsOf(line) ==
    LET inner == SubSeq(line, Len(DocTagsOpen) + 1, Len(line) - 1)
    IN  IF inner = <<>> THEN <<>> ELSE TrimAll(Split(inner, <<",">>))

\* the lines of the header as a reader sees it, indented or not: the lines
\* between a first line `---` and the next line `---`; none without the two
HeaderLines(s) ==
    LET ls == Lines(s)
        closing == {i \in 2..Len(ls) : Trim(ls[i]) = DocDelimLine}
    IN  IF ls = <<>> \/ Trim(ls[1]) # DocDelimLine \/ closing = {} THEN <<>>
        ELSE SubSeq(ls, 2, (CHOOSE i \in closing : \A j \in closing : i <= j) - 1)

\* the header's tag list as a reader sees it: the tags of the header's first
\* tags line; no tags line, no tags
HeaderTagList(s) ==
    LET hs == HeaderLines(s)
        idx == {i \in 1..Len(hs) : IsTagsLine(TrimStart(hs[i]))}
    IN  IF idx = {} THEN <<>>
        ELSE TagsOf(TrimStart(hs[CHOOSE i \in idx : \A j \in idx : i <= j]))

\* the text before the first delimiter
FirstBlock(s) == SubSeq(s, 1, Find(s, DELIM, 1) - 1)

HasDelim(s) == Find(s, DELIM, 1) # 0

\* the file starts with a header in the documented format whose tags are E
HasDocHeader(s, E) ==
    IsPrefix(DocDelimLine \o <<NL>> \o DocTitleLine \o <<NL>> \o DocTagsLine(E)
             \o <<NL>> \o DocDelimLine \o <<NL>>, s)

\* the last invocation got past path resolution, to the file
Called == last.path # <<>>
After == files[last.path]
Elems(v) == {v[i] : i \in 1..Len(v)}

\* every tag supplied to the file of the last call by the successful writes
TagsSupplied == UNION {Elems(Hist(last.path)[i].tags) : i \in 1..Len(Hist(last.path))}

(***************************************************************************)
(* Claims                                                                  *)
(***************************************************************************)

\* C1: a file created by a first write (absent or of zero length before it)
\* accepts every later write with a non-empty tag list: the write returns no
\* error and the header's tag list then holds every tag supplied so far.
C1_CreatedHeaderMerges ==
    (/\ Called
     /\ last.before # <<>>
     /\ last.tags # <<>>
     /\ Hist(last.path) # <<>>
     /\ Hist(last.path)[1].fresh)
    => /\ last.result = "Ok"
       /\ TagsSupplied \cup Elems(last.tags) \subseteq Elems(HeaderTagList(After))

\* C2: a merge into a header in the documented format with tags e1..en leaves
\* the tag list e1..en followed by the input tags that equal no ei, in input
\* order.
C2_MergeAppendsNewTags ==
    \A E \in {HeaderTagList(last.before)} :
        (/\ Called
         /\ last.before # <<>>
         /\ last.tags # <<>>
         /\ HasDocHeader(last.before, E))
        => /\ last.result = "Ok"
           /\ HasDocHeader(After, E \o Retain(last.tags, E))

\* C2 where the header lists at least one tag (n >= 1): the part of C2 that
\* the code satisfies
C2_MergeAppendsNewTags_NonEmpty ==
    \A E \in {HeaderTagList(last.before)} :
        (/\ Called
         /\ last.before # <<>>
         /\ last.tags # <<>>
         /\ E # <<>>
         /\ HasDocHeader(last.before, E))
        => /\ last.result = "Ok"
           /\ HasDocHeader(After, E \o Retain(last.tags, E))

\* C3: after N successful writes c1..cN to a file that did not exist, the
\* file's entry lines are exactly `- c1` .. `- cN`, in call order, and a write
\* leaves the entry lines it found as they were.
C3_AppendOnlyEntries ==
    /\ \A p \in DOMAIN hist \ seeded :
          EntryLines(files[p]) = [i \in 1..Len(hist[p]) |-> DocEntryLine(hist[p][i].content)]
    /\ (Called /\ last.result = "Ok" /\ last.path \notin seeded)
       => LET old == EntryLines(last.before)
          IN  /\ Len(old) <= Len(EntryLines(After))
              /\ SubSeq(EntryLines(After), 1, Len(old)) = old

\* C4: a write to a file that is absent or of zero length leaves exactly the
\* documented header (`---`, `title: "default"`, `tags: [t1, ..., tk]`, `---`,
\* from byte 0) followed by exactly one entry line `- content`.
C4_FreshFileHasDocumentedHeader ==
    (Called /\ last.before = <<>>)
    => LET ls == Lines(After)
       IN  /\ last.result = "Ok"
           /\ Len(ls) >= 5
           /\ ls[1] = DocDelimLine
           /\ ls[2] = DocTitleLine
           /\ ls[3] = DocTagsLine(last.tags)
           /\ ls[4] = DocDelimLine
           /\ SelectSeq(SubSeq(ls, 5, Len(ls)), NotBlank) = <<DocEntryLine(last.content)>>

\* C5: a write whose input tags are all in the existing header tag list
\* leaves the file as it was, plus the one new entry line.
C5_MergeIdempotent ==
    (/\ Called
     /\ last.before # <<>>
     /\ last.tags # <<>>
     /\ Elems(last.tags) \subseteq Elems(HeaderTagList(last.before)))
    => /\ last.result = "Ok"
       /\ After = last.before \o DocEntryText(last.content)

\* C5 where the header is in the documented format: the part of C5 that the
\* code satisfies
C5_MergeIdempotent_DocHeader ==
    (/\ Called
     /\ last.before # <<>>
     /\ last.tags # <<>>
     /\ HasDocHeader(last.before, HeaderTagList(last.before))
     /\ Elems(last.tags) \subseteq Elems(HeaderTagList(last.before)))
    => /\ last.result = "Ok"
       /\ After = last.before \o DocEntryText(last.content)

\* C6: a merge into a file whose first delimited block has no `tags: [...]`
\* line fails with CannotParseMetaData and leaves the file as it was.
C6_MalformedHeaderRejected ==
    (/\ Called
     /\ last.before # <<>>
     /\ last.tags # <<>>
     /\ HasDelim(last.before)
     /\ \A i \in 1..Len(Lines(FirstBlock(last.before))) :
           ~IsTagsLine(Lines(FirstBlock(last.before))[i]))
    => /\ last.result = "CannotParseMetaData"
       /\ After = last.before

\* C7: a write with no tags to a non-empty file neither reads nor rewrites
\* the file and cannot fail on the header: whatever the file held, it then
\* holds that followed by the entry line.
C7_EmptyTagsFastPath ==
    (Called /\ last.before # <<>> /\ last.tags = <<>>)
    => /\ last.result = "Ok"
       /\ After = last.before \o DocEntryText(last.content)
       /\ "read_to_string" \notin Elems(last.ops)
       /\ "fs::write" \notin Elems(last.ops)

C7_Witness ==
    /\ Called
    /\ last.tags = <<>>
    /\ last.before = NoTagsLine
    /\ After = NoTagsLine \o DocEntryText(last.content)

\* C8: with one root, two writes on the same date resolve to the same path
\* and two writes on different dates to different paths.
C8_PathIsFunctionOfDate ==
    \A r1, r2 \in resolved : (r1.date = r2.date) <=> (r1.path = r2.path)

C8_Witness ==
    /\ Cardinality(resolved) = 2
    /\ \E p \in DOMAIN hist : Len(hist[p]) = 2

\* C9: an error of path resolution reaches the caller of write with its own
\* kind (CannotFindDir without a home directory, CannotCreateDir when the
\* directory cannot be created), and no file is opened or written.
C9_PathErrorsKeepTheirKind ==
    (last.cause \in {"CannotFindDir", "CannotCreateDir"})
    => /\ last.result = last.cause
       /\ "open" \notin Elems(last.ops)

\* C10: a merge into a non-empty file without the `\n---\n` delimiter fails
\* with CannotParseMetaData and writes nothing.
C10_MissingDelimiterRejected ==
    (/\ Called
     /\ last.before # <<>>
     /\ last.tags # <<>>
     /\ ~HasDelim(last.before))
    => /\ last.result = "CannotParseMetaData"
       /\ After = last.before

\* the text with its first occurrence of `from`, and no other, replaced
ReplaceFirst(s, from, to) ==
    LET p == Find(s, from, 1)
    IN  IF p = 0 THEN s
        ELSE SubSeq(s, 1, p - 1) \o to \o SubSeq(s, p + Len(from), Len(s))

\* C11: when a merge adds tags, only the first occurrence of the original
\* tags-line text is replaced by the updated tags line; every later occurrence
\* of that text and every other byte of the file stay as they were.
C11_OnlyFirstOccurrenceReplaced ==
    \A E \in {HeaderTagList(last.before)} :
        (/\ Called
         /\ last.before # <<>>
         /\ E # <<>>
         /\ HasDocHeader(last.before, E)
         /\ Retain(last.tags, E) # <<>>)
        => After = ReplaceFirst(last.before, DocTagsLine(E),
                                DocTagsLine(E \o Retain(last.tags, E)))
                   \o DocEntryText(last.content)

\* the elements of v in the order of their first occurrence
RECURSIVE FirstSeen(_)
FirstSeen(v) ==
    IF v = <<>> THEN <<>>
    ELSE LET init == FirstSeen(SubSeq(v, 1, Len(v) - 1))
         IN  IF Contains(init, v[Len(v)]) THEN init ELSE Append(init, v[Len(v)])

\* C12: after every successful write that creates or merges the header, the
\* header's tag list has no duplicate and lists the tags in first-seen order:
\* the tags it listed before, then the input tags not seen before.
C12_TagListHasNoDuplicates ==
    (/\ Called
     /\ last.result = "Ok"
     /\ last.before = <<>> \/ last.tags # <<>>)
    => HeaderTagList(After) = FirstSeen(HeaderTagList(last.before) \o last.tags)

\* the header blocks of a text as a reader sees them, indented or not: a
\* line `---` followed by a line `title: ...`
HeaderBlocks(s) ==
    LET ls == Lines(s)
    IN  {i \in 1..(Len(ls) - 1) :
            /\ Trim(ls[i]) = DocDelimLine
            /\ IsPrefix(<<"t", "i", "t", "l", "e", ":">>, TrimStart(ls[i + 1]))}

\* the file was created by the program: the first successful write to it
\* found it absent or at zero length
CreatedHere(p) == p \in DOMAIN hist /\ hist[p][1].fresh

\* C13: over the sequential writes to one path the header is written exactly
\* once, by the write that finds the file at zero length, and after every
\* later write the file holds exactly one header block, at byte 0.
C13_HeaderWrittenOnce ==
    /\ Called => (Contains(last.ops, "write_all(meta)") <=> last.before = <<>>)
    /\ \A p \in DOMAIN hist :
          CreatedHere(p)
          => /\ {i \in 1..Len(hist[p]) : hist[p][i].fresh} = {1}
             /\ HeaderBlocks(files[p]) = {1}
             /\ IsPrefix(DocDelimLine \o <<NL>>, files[p])

C13_Witness ==
    \E p \in DOMAIN hist :
        /\ CreatedHere(p)
        /\ Len(hist[p]) = 3
        /\ last.path = p
        /\ ~Contains(last.ops, "write_all(meta)")

\* both concurrent invocations have returned Ok
BothReturnedOk == \A i \in Procs : procs[i].pc = "done" /\ procs[i].result = "Ok"

\* both concurrent invocations merged tags: each read the file and wrote it back
BothMerged == BothReturnedOk /\ \A i \in Procs : procs[i].tags # <<>> /\ procs[i].buf # <<>>

\* the tag list invocation i computed from the file it read
MergedTagList(i) ==
    HeaderTagList(procs[i].read)
        \o Retain(procs[i].tags, HeaderTagList(procs[i].read))

\* C14: when two concurrent invocations have both merged tags into the file
\* and returned Ok, the header lists what one of them computed from the file
\* it read (the write-back that came last wins); the update of the other may
\* be lost, and C14_Witness is such a state.
C14_LastWriteBackWins ==
    BothMerged
    => \E i \in Procs : HeaderTagList(files[SeedPath]) = MergedTagList(i)

\* both returned Ok, each supplied a tag the header did not list, and the
\* header lacks the tag one of them supplied
C14_Witness ==
    /\ BothMerged
    /\ \A i \in Procs : ~Contains(HeaderTagList(DocAB), procs[i].tags[1])
    /\ \E i \in Procs : ~Contains(HeaderTagList(files[SeedPath]), procs[i].tags[1])

\* C17: when two concurrent invocations on an existing file have both
\* returned Ok, the file holds the entry line of each.
C17_BothEntryLinesKept ==
    BothReturnedOk
    => \A i \in Procs :
          \E k \in 1..Len(Lines(files[SeedPath])) :
              Lines(files[SeedPath])[k] = DocEntryLine(procs[i].content)

\* C16: a merge that returns no error puts no empty tag in the header's tag
\* list unless the list held one before or the input supplied one, and a merge
\* into a header in the documented format with the empty list `tags: []` leaves
\* exactly the input tags, in input order.
C16_NoEmptyTagIntroduced ==
    (/\ Called
     /\ last.before # <<>>
     /\ last.tags # <<>>
     /\ last.result = "Ok")
    => /\ Contains(HeaderTagList(After), <<>>)
          => \/ Contains(HeaderTagList(last.before), <<>>)
             \/ Contains(last.tags, <<>>)
       /\ HasDocHeader(last.before, <<>>) => HeaderTagList(After) = last.tags

\* the target path the documentation gives for a date: the root, the date as
\* MM-DD-YYYY with month and day of exactly two digits, and default.md
TwoDigits(n) == <<Digits[(n \div 10) + 1], Digits[(n % 10) + 1]>>
DocDate(d) == TwoDigits(d.month) \o <<"-">> \o TwoDigits(d.day) \o <<"-">> \o Dec(d.year)
DocPath(d) ==
    HomeDir \o <<"/">> \o PATH_FROM_ROOT \o <<"/">> \o DocDate(d)
        \o <<"/", "d", "e", "f", "a", "u", "l", "t", ".", "m", "d">>

\* C15: on every date (month 1..12, day 1..31) each path-building routine of
\* the program that returns a path returns {root}/MM-DD-YYYY/default.md, month
\* and day zero-padded to exactly two digits.
C15_EveryRoutinePadsTheDate ==
    \A r \in {built.entry, built.main} :
        r.err = "Ok" => r.path = DocPath(built.date)

=============================================================================
